---- MODULE Spec2Model ----
(***************************************************************************)
(* Model of MarkersTable (vs/workbench/contrib/markers/browser/            *)
(* markersTable.ts): the dataset of resource-marker groups, the filter     *)
(* options, the rows handed to the table widget and the debounced hover    *)
(* notification.                                                           *)
(***************************************************************************)
EXTENDS Integers, Sequences, FiniteSets, TLC

\* ---------------------------------------------------------------- bounds
\* longest dataset (array of groups) passed to reset / filterMarkers
MaxGroups == 2
\* longest argument list passed to update
MaxUpdate == 1
\* longest dataset while the hover tracking is watched
MaxHoverGroups == 1

\* ---------------------------------------------------------------- values
\* an optional value is a record: kind says whether it is undefined, null or set
Undefined == [kind |-> "undefined", value |-> << >>]
Null == [kind |-> "null", value |-> << >>]
\* a string that is set
S(chars) == [kind |-> "string", value |-> chars]
\* an array of match spans that is set
Spans(list) == [kind |-> "array", value |-> list]
\* the sentinel row index of mouseleave (source: () => -1)
NoRow == -1

\* strings are sequences of characters
EmptyStr == << >>
sA == <<"a">>
sB == <<"b">>

\* ------------------------------------------------------------- resources
Resources == {"file1", "file2", "walk", "snip"}

\* URI scheme of a resource
Scheme(r) ==
    CASE r = "walk" -> "walkThrough"
      [] r = "snip" -> "walkThroughSnippet"
      [] OTHER -> "file"

\* labelService.getUriLabel(resource, {relative: true}): the relative path
getUriLabel(r) ==
    CASE r = "file1" -> <<"f">>
      [] r = "file2" -> <<"f", "a">>
      [] r = "walk" -> <<"w">>
      [] OTHER -> <<"w", "a">>

\* ------------------------------------------------------------ severities
Severities == {"Error", "Warning", "Info", "Hint"}

\* rank of a severity in the sort order: Error before Warning before Info
SeverityRank(s) ==
    CASE s = "Error" -> 1
      [] s = "Warning" -> 2
      [] s = "Info" -> 3
      [] OTHER -> 4

\* MarkerSeverity.compare(a, b): negative when a sorts before b
MarkerSeverityCompare(a, b) == SeverityRank(a) - SeverityRank(b)

\* --------------------------------------------------------------- markers
\* code of a marker: absent, a plain string, or a link {value, target}
\* (a link object is truthy whatever its value)
NoCode == Undefined
StringCode(v) == S(v)
LinkCode(v) == [kind |-> "link", value |-> v]

Mk(id, r, sev, src, code, msg, owner) ==
    [id |-> id, resource |-> r, severity |-> sev, source |-> src,
     code |-> code, message |-> msg, owner |-> owner]


\* JavaScript truthiness of an optional string: undefined and "" are falsy
TruthyStr(s) == s.kind = "string" /\ Len(s.value) > 0

\* JavaScript truthiness of an optional array: every array is truthy
TruthyArr(x) == x.kind = "array"

\* ------------------------------------------------------------ text match
\* first position (1-based) at which word occurs in text, 0 when it does not
FirstOccurrence(word, text) ==
    LET ps == {i \in 1..(Len(text) - Len(word) + 1) :
                  SubSeq(text, i, i + Len(word) - 1) = word}
    IN IF ps = {} THEN 0 ELSE CHOOSE i \in ps : \A j \in ps : i <= j

\* FilterOptions._filter(word, text): the match spans, or null
Filter(word, text) ==
    LET p == FirstOccurrence(word, text)
    IN IF p = 0 THEN Null
       ELSE Spans(<< [start |-> p - 1, end |-> p - 1 + Len(word)] >>)

\* FilterOptions._messageFilter(word, text): the match spans, or null
MessageFilter(word, text) == Filter(word, text)

\* x ?? undefined
OrUndefined(x) == IF x.kind = "null" THEN Undefined ELSE x

\* ------------------------------------------------------------ row items
\* new MarkerTableItem(marker, sourceMatches, ..., ownerMatches)
MarkerTableItem(marker, sm, cm, mm, fm, om) ==
    [marker |-> marker, sourceMatches |-> sm, codeMatches |-> cm,
     messageMatches |-> mm, fileMatches |-> fm, ownerMatches |-> om]

\* new MarkerTableItem(marker)
PlainItem(marker) ==
    MarkerTableItem(marker, Undefined, Undefined, Undefined, Undefined, Undefined)

\* the severity filter of reset
MatchesSeverity(f, marker) ==
    \/ f.showErrors /\ "Error" = marker.severity
    \/ f.showWarnings /\ "Warning" = marker.severity
    \/ f.showInfos /\ "Info" = marker.severity

\* TextFilterItems with the negate flag ignored: the row is shown when a field matches
TextFilterItemsNoNegate(f, marker) ==
    LET text == f.textFilter.text
        sourceMatches ==
            IF TruthyStr(marker.source)
            THEN OrUndefined(Filter(text, marker.source.value)) ELSE Undefined
        codeMatches ==
            IF marker.code.kind = "link" \/ TruthyStr(marker.code)
            THEN OrUndefined(Filter(text, marker.code.value)) ELSE Undefined
        messageMatches == OrUndefined(MessageFilter(text, marker.message))
        fileMatches == OrUndefined(MessageFilter(text, getUriLabel(marker.resource)))
        ownerMatches == OrUndefined(MessageFilter(text, marker.owner))
        matched == \/ TruthyArr(sourceMatches) \/ TruthyArr(codeMatches)
                   \/ TruthyArr(messageMatches) \/ TruthyArr(fileMatches)
                   \/ TruthyArr(ownerMatches)
    IN IF matched
       THEN << MarkerTableItem(marker, sourceMatches, codeMatches,
                               messageMatches, fileMatches, ownerMatches) >>
       ELSE << >>

\* the text filter of reset: the row of a marker whose severity is enabled,
\* << >> when the marker is filtered out
TextFilterItems(f, marker) ==
    LET text == f.textFilter.text
        sourceMatches ==
            IF TruthyStr(marker.source)
            THEN OrUndefined(Filter(text, marker.source.value)) ELSE Undefined
        codeMatches ==
            IF marker.code.kind = "link" \/ TruthyStr(marker.code)
            THEN OrUndefined(Filter(text, marker.code.value)) ELSE Undefined
        messageMatches == OrUndefined(MessageFilter(text, marker.message))
        fileMatches == OrUndefined(MessageFilter(text, getUriLabel(marker.resource)))
        ownerMatches == OrUndefined(MessageFilter(text, marker.owner))
        matched == \/ TruthyArr(sourceMatches) \/ TruthyArr(codeMatches)
                   \/ TruthyArr(messageMatches) \/ TruthyArr(fileMatches)
                   \/ TruthyArr(ownerMatches)
    IN IF (matched /\ ~f.textFilter.negate) \/ (~matched /\ f.textFilter.negate)
       THEN << MarkerTableItem(marker, sourceMatches, codeMatches,
                               messageMatches, fileMatches, ownerMatches) >>
       ELSE << >>

\* MarkerItems without the exclude pattern
MarkerItemsNoExclude(f, marker) ==
    IF Scheme(marker.resource) = "walkThrough" \/ Scheme(marker.resource) = "walkThroughSnippet"
    THEN << >>
    ELSE IF marker.resource \in f.includesMatcher
    THEN << PlainItem(marker) >>
    ELSE IF ~MatchesSeverity(f, marker)
    THEN << >>
    ELSE IF Len(f.textFilter.text) > 0
    THEN TextFilterItems(f, marker)
    ELSE << PlainItem(marker) >>

\* MarkerItems with the severity filter ahead of the include pattern
MarkerItemsSeverityFirst(f, marker) ==
    IF Scheme(marker.resource) = "walkThrough" \/ Scheme(marker.resource) = "walkThroughSnippet"
    THEN << >>
    ELSE IF marker.resource \in f.excludesMatcher
    THEN << >>
    ELSE IF ~MatchesSeverity(f, marker)
    THEN << >>
    ELSE IF marker.resource \in f.includesMatcher
    THEN << PlainItem(marker) >>
    ELSE IF Len(f.textFilter.text) > 0
    THEN TextFilterItems(f, marker)
    ELSE << PlainItem(marker) >>

\* MarkerItems without the continue that ends the text filter: a marker the
\* text filter admits is pushed a second time
MarkerItemsNoContinue(f, marker) ==
    IF Scheme(marker.resource) = "walkThrough" \/ Scheme(marker.resource) = "walkThroughSnippet"
    THEN << >>
    ELSE IF marker.resource \in f.excludesMatcher
    THEN << >>
    ELSE IF marker.resource \in f.includesMatcher
    THEN << PlainItem(marker) >>
    ELSE IF ~MatchesSeverity(f, marker)
    THEN << >>
    ELSE IF Len(f.textFilter.text) > 0
    THEN TextFilterItems(f, marker) \o << PlainItem(marker) >>
    ELSE << PlainItem(marker) >>

\* the body of reset's inner loop: the rows one marker contributes
MarkerItems(f, marker) ==
    IF Scheme(marker.resource) = "walkThrough" \/ Scheme(marker.resource) = "walkThroughSnippet"
    THEN << >>
    ELSE IF marker.resource \in f.excludesMatcher
    THEN << >>
    ELSE IF marker.resource \in f.includesMatcher
    THEN << PlainItem(marker) >>
    ELSE IF ~MatchesSeverity(f, marker)
    THEN << >>
    ELSE IF Len(f.textFilter.text) > 0
    THEN TextFilterItems(f, marker)
    ELSE << PlainItem(marker) >>

RECURSIVE GroupItems(_, _)
\* reset's inner loop over resourceMarker.markers
GroupItems(f, ms) ==
    IF ms = << >> THEN << >>
    ELSE MarkerItems(f, Head(ms)) \o GroupItems(f, Tail(ms))

RECURSIVE CollectItems(_, _, _)
\* reset's outer loop over this.resourceMarkers
CollectItems(f, groups, heap) ==
    IF groups = << >> THEN << >>
    ELSE GroupItems(f, heap[Head(groups)]) \o CollectItems(f, Tail(groups), heap)

\* insert x after the last element that does not sort after it
RECURSIVE InsertSorted(_, _)
InsertSorted(x, sorted) ==
    IF sorted = << >> THEN << x >>
    ELSE IF MarkerSeverityCompare(Head(sorted).marker.severity, x.marker.severity) <= 0
    THEN << Head(sorted) >> \o InsertSorted(x, Tail(sorted))
    ELSE << x >> \o sorted

\* SortItems without the sort
SortItemsNone(items) == items

RECURSIVE SortItems(_)
\* items.sort((a, b) => MarkerSeverity.compare(...)): a stable sort
SortItems(items) ==
    IF items = << >> THEN << >>
    ELSE InsertSorted(items[Len(items)], SortItems(SubSeq(items, 1, Len(items) - 1)))

\* table.splice(start, deleteCount, items) on the table's rows
Min(a, b) == IF a < b THEN a ELSE b
TableSplice(rows, start, deleteCount, items) ==
    LET s == Min(start, Len(rows))
        e == Min(s + deleteCount, Len(rows))
    IN SubSeq(rows, 1, s) \o items \o SubSeq(rows, e + 1, Len(rows))


\* -------------------------------------------------------- input domains
\* the ResourceMarkers objects, by identity
Groups == {"g1", "g2"}

e1 == Mk(1, "file1", "Error", S(sA), StringCode(sB), sB, sB)
w1 == Mk(2, "file1", "Warning", Undefined, NoCode, sA, sB)
e2 == Mk(3, "file2", "Error", S(sB), LinkCode(sA), sB, sB)
i2 == Mk(4, "file2", "Info", S(sB), NoCode, sB, sB)
h2 == Mk(5, "file2", "Hint", Undefined, NoCode, sB, sA)
x3 == Mk(6, "walk", "Error", Undefined, NoCode, sA, sA)
y3 == Mk(7, "snip", "Warning", Undefined, NoCode, sB, sB)

\* the marker lists a group can hold (reset reads the resource of each
\* marker, never the resource of the group)
GroupContents(g) ==
    CASE g = "g1" -> { << e1 >>, << w1, e1 >>, << y3 >> }
      [] OTHER -> { << i2, e2 >>, << h2, i2 >>, << x3 >> }

Heaps == { h \in [Groups -> UNION { GroupContents(g) : g \in Groups }] :
             \A g \in Groups : h[g] \in GroupContents(g) }

\* the arrays of groups of length at most n
SeqsUpTo(n) == UNION { [1..k -> Groups] : k \in 0..n }

FilterOptions(se, sw, si, inc, exc, text, negate) ==
    [showErrors |-> se, showWarnings |-> sw, showInfos |-> si,
     includesMatcher |-> inc, excludesMatcher |-> exc,
     textFilter |-> [text |-> text, negate |-> negate]]

\* the filter options the view passes to the table
ViewFilters ==
    { FilterOptions(TRUE, TRUE, TRUE, {}, {}, EmptyStr, FALSE),
      FilterOptions(TRUE, FALSE, FALSE, {}, {}, EmptyStr, FALSE),
      FilterOptions(FALSE, FALSE, FALSE, {"file2"}, {}, EmptyStr, FALSE),
      FilterOptions(FALSE, TRUE, TRUE, Resources, {"file1"}, sA, FALSE),
      FilterOptions(TRUE, TRUE, TRUE, {}, {}, sA, FALSE),
      FilterOptions(TRUE, TRUE, TRUE, {}, {}, sA, TRUE) }

\* the filter options the view passes while the hover tracking is watched
HoverFilters ==
    { FilterOptions(TRUE, TRUE, TRUE, {}, {}, EmptyStr, FALSE),
      FilterOptions(TRUE, FALSE, FALSE, {}, {}, EmptyStr, FALSE) }

\* ----------------------------------------------------------------- state
VARIABLES
    resourceMarkers,  \* this.resourceMarkers: the array of groups
    groupMarkers,     \* the markers each ResourceMarkers object holds
    filterOptions,    \* this.filterOptions
    itemCount,        \* this._itemCount
    tableRows,        \* the rows held by this.table
    firstCall,        \* Event.latch: no event seen yet
    cache,            \* Event.latch: the last event value
    pending,          \* Event.debounce: a timer is running
    elapsed,          \* time since the debounce timer was started
    notified,         \* the call of onMarkerMouseHover made by the last step
    pointerMarker,    \* id of the marker under the pointer at the last recorded event
    op                \* the operation of the last step, with update's argument

vars == << resourceMarkers, groupMarkers, filterOptions, itemCount, tableRows,
           firstCall, cache, pending, elapsed, notified, pointerMarker, op >>

tableVars == << resourceMarkers, groupMarkers, filterOptions, itemCount, tableRows >>
hoverVars == << firstCall, cache, pending, elapsed, pointerMarker >>

\* the record of an operation
Op(name, args) == [name |-> name, args |-> args, repeated |-> FALSE]

\* the operations that rebuild the rows
ResetOps == {"reset", "filterMarkers", "update"}

\* no call of onMarkerMouseHover
NoCall == [kind |-> "none", index |-> NoRow, markerId |-> 0]

\* the 500 of Event.debounce(onRowHoverOrLeave, (_, e) => e, 500)
DebounceDelay == 500
\* the step in which the model lets time pass
TickMs == DebounceDelay \div 2

\* the state after construction: the table is empty, nothing was hovered
Constructed(datasets, filters) ==
    /\ resourceMarkers \in datasets
    /\ groupMarkers \in Heaps
    /\ filterOptions \in filters
    /\ itemCount = 0
    /\ tableRows = << >>
    /\ firstCall = TRUE
    /\ cache = NoRow
    /\ pending = FALSE
    /\ elapsed = 0
    /\ notified = NoCall
    /\ pointerMarker = 0
    /\ op = Op("constructor", << >>)

\* ------------------------------------------------------------ operations
\* ResetWith splicing the new rows in after the old ones
ResetWithAppend(f, groups) ==
    LET items == CollectItems(f, groups, groupMarkers)
    IN /\ resourceMarkers' = groups
       /\ itemCount' = Len(items)
       /\ tableRows' = TableSplice(tableRows, Len(tableRows), 0, SortItems(items))

\* ResetWith leaving _itemCount as it was
ResetWithoutCount(f, groups) ==
    LET items == CollectItems(f, groups, groupMarkers)
    IN /\ resourceMarkers' = groups
       /\ itemCount' = itemCount
       /\ tableRows' = TableSplice(tableRows, 0, Len(tableRows) + Len(items) + 1, SortItems(items))

\* the body of reset, under filter f
ResetWith(f, groups) ==
    LET items == CollectItems(f, groups, groupMarkers)
    IN /\ resourceMarkers' = groups
       /\ itemCount' = Len(items)
       /\ tableRows' = TableSplice(tableRows, 0, Len(tableRows) + Len(items) + 1, SortItems(items))

\* reset(resourceMarkers)
Reset(groups) ==
    /\ ResetWith(filterOptions, groups)
    /\ notified' = NoCall
    /\ op' = [name |-> "reset", args |-> << >>,
              repeated |-> (op.name \in ResetOps /\ groups = resourceMarkers)]
    /\ UNCHANGED << groupMarkers, filterOptions, hoverVars >>

\* filterMarkers(resourceMarkers, filterOptions)
FilterMarkers(groups, f) ==
    /\ filterOptions' = f
    /\ ResetWith(f, groups)
    /\ notified' = NoCall
    /\ op' = Op("filterMarkers", << >>)
    /\ UNCHANGED << groupMarkers, hoverVars >>

\* Array.prototype.indexOf: 0-based, -1 when absent
IndexOf(arr, x) ==
    IF \E i \in 1..Len(arr) : arr[i] = x
    THEN (CHOOSE i \in 1..Len(arr) : arr[i] = x /\ \A j \in 1..(i - 1) : arr[j] # x) - 1
    ELSE -1

\* Array.prototype.splice(start, deleteCount, item): a negative start counts from the end
ArraySplice(arr, start, deleteCount, item) ==
    LET len == Len(arr)
        s == IF start < 0 THEN (IF len + start < 0 THEN 0 ELSE len + start)
             ELSE Min(start, len)
        d == Min(deleteCount, len - s)
    IN SubSeq(arr, 1, s) \o << item >> \o SubSeq(arr, s + d + 1, len)

RECURSIVE UpdateGroups(_, _)
\* the loop of update over its argument
UpdateGroups(arr, args) ==
    IF args = << >> THEN arr
    ELSE UpdateGroups(ArraySplice(arr, IndexOf(arr, Head(args)), 1, Head(args)), Tail(args))

\* update(resourceMarkers)
Update(args) ==
    /\ ResetWith(filterOptions, UpdateGroups(resourceMarkers, args))
    /\ notified' = NoCall
    /\ op' = Op("update", args)
    /\ UNCHANGED << groupMarkers, filterOptions, hoverVars >>

\* the markers model changes the markers of one group
ModelChange(g, ms) ==
    /\ groupMarkers[g] # ms
    /\ groupMarkers' = [groupMarkers EXCEPT ![g] = ms]
    /\ notified' = NoCall
    /\ op' = Op("modelChange", << >>)
    /\ UNCHANGED << resourceMarkers, filterOptions, itemCount, tableRows, hoverVars >>

\* Event.latch followed by Event.debounce: a changed value restarts the timer
HoverOrLeave(e, markerId) ==
    LET shouldEmit == firstCall \/ e # cache
    IN /\ op' = Op(IF e = NoRow THEN "mouseleave" ELSE "mouseover", << >>)
       /\ firstCall' = FALSE
       /\ cache' = e
       /\ pending' = (pending \/ shouldEmit)
       /\ elapsed' = IF shouldEmit THEN 0 ELSE elapsed
       /\ pointerMarker' = IF shouldEmit THEN markerId ELSE pointerMarker
       /\ notified' = NoCall
       /\ UNCHANGED tableVars

\* mouseover on the rendered row with data-index i
MouseOver(i) ==
    /\ i \in 0..(Len(tableRows) - 1)
    /\ HoverOrLeave(i, tableRows[i + 1].marker.id)

\* mouseleave of the list
MouseLeave == HoverOrLeave(NoRow, 0)

\* time passes while the debounce timer runs
Tick ==
    /\ pending
    /\ elapsed < DebounceDelay
    /\ elapsed' = Min(elapsed + TickMs, DebounceDelay)
    /\ notified' = NoCall
    /\ op' = Op("tick", << >>)
    /\ UNCHANGED << tableVars, firstCall, cache, pending, pointerMarker >>

\* this.table.row(e)
TableRow(rows, e) ==
    IF e \in 0..(Len(rows) - 1)
    THEN [kind |-> "row", index |-> e, markerId |-> rows[e + 1].marker.id]
    ELSE [kind |-> "missing", index |-> e, markerId |-> 0]

\* the listener without the test of the sentinel
OnRowPermanentHoverNoSentinel(e) == TableRow(tableRows, e)

\* the listener of onRowPermanentHover
OnRowPermanentHover(e) ==
    IF e # NoRow THEN TableRow(tableRows, e) ELSE NoCall

\* the debounce timer fires and delivers the last value
DebounceFire ==
    /\ pending
    /\ elapsed >= DebounceDelay
    /\ pending' = FALSE
    /\ notified' = OnRowPermanentHover(cache)
    /\ op' = Op("fire", << >>)
    /\ UNCHANGED << tableVars, firstCall, cache, elapsed, pointerMarker >>

\* ------------------------------------------------------- specifications
\* the whole widget: the table operations and the hover tracking
Init == Constructed(SeqsUpTo(MaxHoverGroups), HoverFilters)

Next ==
    \/ \E groups \in SeqsUpTo(MaxHoverGroups) : Reset(groups)
    \/ \E groups \in SeqsUpTo(MaxHoverGroups), f \in HoverFilters : FilterMarkers(groups, f)
    \/ \E args \in SeqsUpTo(MaxUpdate) : Update(args)
    \/ \E g \in Groups : \E ms \in GroupContents(g) : ModelChange(g, ms)
    \/ \E i \in 0..(Len(tableRows) - 1) : MouseOver(i)
    \/ MouseLeave
    \/ Tick
    \/ DebounceFire

Spec == Init /\ [][Next]_vars

\* the table operations alone, over longer datasets and more filters
InitTable == Constructed(SeqsUpTo(MaxGroups), ViewFilters)

NextTable ==
    \/ \E groups \in SeqsUpTo(MaxGroups) : Reset(groups)
    \/ \E groups \in SeqsUpTo(MaxGroups), f \in ViewFilters : FilterMarkers(groups, f)
    \/ \E args \in SeqsUpTo(MaxUpdate) : Update(args)
    \/ \E g \in Groups : \E ms \in GroupContents(g) : ModelChange(g, ms)

SpecTable == InitTable /\ [][NextTable]_vars

\* the projection of reset over every kind of marker and filter: one group
\* holding one marker, the filter options given at construction
MarkerUniverse ==
    { Mk(1, r, sev, src, code, msg, owner) :
        r \in Resources, sev \in Severities,
        src \in {Undefined, S(sA), S(sB)},
        code \in {NoCode, StringCode(sA), LinkCode(sA), LinkCode(sB)},
        msg \in {sA, sB}, owner \in {sA, sB} }

AllFilters ==
    { FilterOptions(se, sw, si, inc, exc, text, negate) :
        se \in BOOLEAN, sw \in BOOLEAN, si \in BOOLEAN,
        inc \in { {}, {"file1"}, Resources },
        exc \in { {}, {"file2"}, {"file1", "walk"} },
        text \in {EmptyStr, sA}, negate \in BOOLEAN }

InitFilter ==
    /\ resourceMarkers = << "g1" >>
    /\ \E m \in MarkerUniverse : groupMarkers = [g \in Groups |-> IF g = "g1" THEN << m >> ELSE << >>]
    /\ filterOptions \in AllFilters
    /\ itemCount = 0
    /\ tableRows = << >>
    /\ firstCall = TRUE
    /\ cache = NoRow
    /\ pending = FALSE
    /\ elapsed = 0
    /\ notified = NoCall
    /\ pointerMarker = 0
    /\ op = Op("constructor", << >>)

NextFilter ==
    \/ Reset(resourceMarkers)
    \/ \E f \in ViewFilters : FilterMarkers(resourceMarkers, f)

SpecFilter == InitFilter /\ [][NextFilter]_vars

\* ================================================================ claims
\* the rows were rebuilt by the last step
Fresh == op.name \in ResetOps

RECURSIVE Flatten(_, _)
\* the markers of the dataset in encounter order: group order, then marker order
Flatten(groups, heap) ==
    IF groups = << >> THEN << >>
    ELSE heap[Head(groups)] \o Flatten(Tail(groups), heap)

\* the markers of the current dataset, in encounter order
Encountered == Flatten(resourceMarkers, groupMarkers)

\* the markers the rows wrap, in row order
RowMarkers == [i \in 1..Len(tableRows) |-> tableRows[i].marker]

\* how often x occurs in the sequence seq
Count(seq, x) == Cardinality({ i \in 1..Len(seq) : seq[i] = x })

\* word occurs in text as a substring
Contains(word, text) ==
    \E i \in 1..(Len(text) - Len(word) + 1) : SubSeq(text, i, i + Len(word) - 1) = word

InWalkthrough(m) == Scheme(m.resource) \in {"walkThrough", "walkThroughSnippet"}

SeverityEnabled(f, m) ==
    \/ m.severity = "Error" /\ f.showErrors
    \/ m.severity = "Warning" /\ f.showWarnings
    \/ m.severity = "Info" /\ f.showInfos

\* one of the five fields source, code, message, file label, owner yields a match
AnyFieldMatches(text, m) ==
    \/ m.source.kind = "string" /\ Contains(text, m.source.value)
    \/ m.code.kind \in {"string", "link"} /\ Contains(text, m.code.value)
    \/ Contains(text, m.message)
    \/ Contains(text, getUriLabel(m.resource))
    \/ Contains(text, m.owner)

\* the text filter is satisfied per the negate rule; an empty text is satisfied
TextSatisfied(f, m) ==
    \/ f.textFilter.text = EmptyStr
    \/ AnyFieldMatches(f.textFilter.text, m) /\ ~f.textFilter.negate
    \/ ~AnyFieldMatches(f.textFilter.text, m) /\ f.textFilter.negate

\* the marker is to be shown under filter f
ShouldShow(f, m) ==
    /\ ~InWalkthrough(m)
    /\ m.resource \notin f.excludesMatcher
    /\ \/ m.resource \in f.includesMatcher
       \/ SeverityEnabled(f, m) /\ TextSatisfied(f, m)

\* C1: every row handed to the table wraps a marker that is not in a
\* walkthrough scheme, is not exclude-matched, and is include-matched or has
\* its severity enabled and the text filter satisfied per the negate rule.
C1_RowsAdmissible ==
    \A i \in 1..Len(tableRows) : ShouldShow(filterOptions, tableRows[i].marker)

\* C1 witness: update has rebuilt the rows under a text filter with an exclude
\* pattern; a row is shown and a marker of the dataset is not
C1_Witness ==
    /\ op.name = "update"
    /\ tableRows # << >>
    /\ Len(tableRows) < Len(Encountered)
    /\ filterOptions.textFilter.text # EmptyStr
    /\ filterOptions.excludesMatcher # {}

\* C3 as stated: after the rows are rebuilt, every marker of the dataset whose
\* resource is include-matched is in the rows.
C3_IncludeAlwaysShown ==
    Fresh => \A i \in 1..Len(Encountered) :
                Encountered[i].resource \in filterOptions.includesMatcher
                    => Count(RowMarkers, Encountered[i]) > 0

\* C3 amended: after the rows are rebuilt, every marker of the dataset whose
\* resource is include-matched, is not in a walkthrough scheme and is not
\* exclude-matched is in the rows, whatever the severity toggles, the text
\* filter and its negate flag.
C3_IncludeBypass ==
    Fresh => \A i \in 1..Len(Encountered) :
                (/\ Encountered[i].resource \in filterOptions.includesMatcher
                 /\ ~InWalkthrough(Encountered[i])
                 /\ Encountered[i].resource \notin filterOptions.excludesMatcher)
                    => Count(RowMarkers, Encountered[i]) > 0

\* C3 witness: an include-matched marker is shown although every severity
\* toggle is off and the text filter is not satisfied
C3_Witness ==
    /\ Fresh
    /\ ~filterOptions.showErrors /\ ~filterOptions.showWarnings /\ ~filterOptions.showInfos
    /\ filterOptions.textFilter.text # EmptyStr
    /\ \E i \in 1..Len(tableRows) :
          /\ tableRows[i].marker.resource \in filterOptions.includesMatcher
          /\ ~TextSatisfied(filterOptions, tableRows[i].marker)

\* C5 as stated: under a non-empty text filter, a marker with its severity
\* enabled and its resource neither include- nor exclude-matched is in the
\* rows exactly when (no field matches and negate) or (a field matches and
\* not negate).
C5_NegateAsStated ==
    (Fresh /\ filterOptions.textFilter.text # EmptyStr) =>
        \A i \in 1..Len(Encountered) :
            (/\ SeverityEnabled(filterOptions, Encountered[i])
             /\ Encountered[i].resource \notin filterOptions.includesMatcher
             /\ Encountered[i].resource \notin filterOptions.excludesMatcher)
                => (Count(RowMarkers, Encountered[i]) > 0
                      <=> (AnyFieldMatches(filterOptions.textFilter.text, Encountered[i])
                             # filterOptions.textFilter.negate))

\* C5 amended: the same for a marker that, in addition, is not in a
\* walkthrough scheme.
C5_NegateSemantics ==
    (Fresh /\ filterOptions.textFilter.text # EmptyStr) =>
        \A i \in 1..Len(Encountered) :
            (/\ ~InWalkthrough(Encountered[i])
             /\ SeverityEnabled(filterOptions, Encountered[i])
             /\ Encountered[i].resource \notin filterOptions.includesMatcher
             /\ Encountered[i].resource \notin filterOptions.excludesMatcher)
                => (Count(RowMarkers, Encountered[i]) > 0
                      <=> (AnyFieldMatches(filterOptions.textFilter.text, Encountered[i])
                             # filterOptions.textFilter.negate))

\* C5 witness: negate is set and a marker none of whose fields matches is shown
C5_Witness ==
    /\ Fresh
    /\ filterOptions.textFilter.negate
    /\ filterOptions.textFilter.text # EmptyStr
    /\ \E i \in 1..Len(tableRows) :
          /\ tableRows[i].marker.resource \notin filterOptions.includesMatcher
          /\ ~AnyFieldMatches(filterOptions.textFilter.text, tableRows[i].marker)

\* the rows' markers of severity sev, in row order
RowsOfSeverity(sev) == SelectSeq(RowMarkers, LAMBDA m : m.severity = sev)

\* the markers of the dataset that are to be shown and have severity sev, in
\* encounter order
ShownOfSeverity(sev) ==
    SelectSeq(Encountered, LAMBDA m : ShouldShow(filterOptions, m) /\ m.severity = sev)

\* C4: in the rows, the severity rank never decreases from one row to the
\* next (Error, then Warning, then Info), and the rows of one severity keep
\* their encounter order: group order, then marker order within the group.
C4_SortedStable ==
    /\ \A i \in 1..(Len(tableRows) - 1) :
          SeverityRank(tableRows[i].marker.severity)
              <= SeverityRank(tableRows[i + 1].marker.severity)
    /\ Fresh => \A sev \in Severities : RowsOfSeverity(sev) = ShownOfSeverity(sev)

\* C4 witness: the sort has moved rows (the first marker encountered is not
\* the first row) and two rows of equal severity come from different groups
C4_Witness ==
    /\ Fresh
    /\ Len(tableRows) >= 3
    /\ Encountered[1] # tableRows[1].marker
    /\ \E i \in 1..(Len(tableRows) - 1) :
          /\ tableRows[i].marker.severity = tableRows[i + 1].marker.severity
          /\ tableRows[i].marker.resource # tableRows[i + 1].marker.resource

\* C7: reset called right after the rows were rebuilt, with the same groups
\* (and so the same filter), leaves the same rows in the same order and the
\* same visible item count.
C7_ResetIdempotent ==
    [][(op.name \in ResetOps /\ op'.name = "reset" /\ resourceMarkers' = resourceMarkers)
          => (tableRows' = tableRows /\ itemCount' = itemCount)]_vars

\* C7 witness: reset was repeated on a dataset that shows at least two rows
C7_Witness ==
    /\ op.name = "reset"
    /\ op.repeated
    /\ Len(tableRows) >= 2

\* C8: the visible item count is the number of rows the table holds; after
\* the rows are rebuilt they are rows of the current dataset only (the old
\* rows are gone), and an empty dataset gives no rows and a count of 0.
C8_CountIsRows ==
    /\ itemCount = Len(tableRows)
    /\ Fresh => /\ \A m \in {RowMarkers[i] : i \in 1..Len(RowMarkers)} :
                     Count(RowMarkers, m) <= Count(Encountered, m)
                /\ resourceMarkers = << >> => (tableRows = << >> /\ itemCount = 0)

\* C8 witness: rows were rebuilt on a dataset of which some markers are shown
\* and some are not
C8_Witness ==
    /\ Fresh
    /\ itemCount >= 2
    /\ itemCount < Len(Encountered)

\* C9: after the rows are rebuilt, every marker that is to be shown is in the
\* rows once per occurrence in the groups and no other marker is, so the row
\* count is the number of such occurrences; a marker whose severity is none
\* of Error, Warning, Info is shown only when include-matched.
C9_Complete ==
    Fresh =>
        /\ \A m \in {Encountered[i] : i \in 1..Len(Encountered)}
                    \cup {RowMarkers[i] : i \in 1..Len(RowMarkers)} :
              Count(RowMarkers, m) =
                  IF ShouldShow(filterOptions, m) THEN Count(Encountered, m) ELSE 0
        /\ Len(tableRows) =
              Cardinality({ i \in 1..Len(Encountered) : ShouldShow(filterOptions, Encountered[i]) })
        /\ \A i \in 1..Len(tableRows) :
              tableRows[i].marker.severity \notin {"Error", "Warning", "Info"}
                  => tableRows[i].marker.resource \in filterOptions.includesMatcher

\* C9 witness: a group occurs twice in the dataset, so a marker is shown
\* twice, and a Hint marker is shown
C9_Witness ==
    /\ Fresh
    /\ \E i, j \in 1..Len(tableRows) : i # j /\ tableRows[i] = tableRows[j]
    /\ \E i \in 1..Len(tableRows) : tableRows[i].marker.severity = "Hint"

\* the rows that wrap a marker of group g
RowsOfGroup(rows, g) ==
    SelectSeq(rows, LAMBDA r : \E k \in 1..Len(groupMarkers[g]) : groupMarkers[g][k] = r.marker)

\* C2: update leaves every group that is not one of its arguments in the
\* dataset at its position, and the rows its markers contribute are the same
\* as before.
C2_UpdateKeepsUntouched ==
    [][op'.name = "update" =>
          \A i \in 1..Len(resourceMarkers) :
              (\A j \in 1..Len(op'.args) : op'.args[j] # resourceMarkers[i]) =>
                  /\ i <= Len(resourceMarkers')
                  /\ resourceMarkers'[i] = resourceMarkers[i]
                  /\ Fresh => RowsOfGroup(tableRows', resourceMarkers[i])
                                  = RowsOfGroup(tableRows, resourceMarkers[i])]_vars

\* C6: onMarkerMouseHover is called only by the debounce timer, once the
\* delay has elapsed since the last changed hover-or-leave event, for the row
\* index of that event, and never when that event is the mouseleave sentinel.
C6_HoverDebounced ==
    notified # NoCall =>
        /\ op.name = "fire"
        /\ ~pending
        /\ elapsed >= DebounceDelay
        /\ cache # NoRow
        /\ notified.index = cache

\* C6 witness: a hover has settled and the view model was notified of a row
C6_Witness ==
    /\ notified.kind = "row"
    /\ Len(tableRows) >= 2

\* C10: the row index of a delivered hover notification is an index of the
\* current rows and the row there wraps the marker that was under the pointer
\* when the hover event was recorded.
C10_HoverRowStillThere ==
    notified # NoCall =>
        /\ notified.kind = "row"
        /\ notified.markerId = pointerMarker

====
